---- MODULE Spec2Model ----
(***************************************************************************)
(* Model of pubfile_content_extractor.py: the screenshot capture loop of   *)
(* BrowserExtractor, the PDF assembly of PdfGenerator, the orchestration   *)
(* of PubHTML5Downloader.download, the process-wide progress dictionary    *)
(* download_progress, the Flask handlers reading it, and the command-line  *)
(* entry point.                                                            *)
(*                                                                         *)
(* Every call into the browser, the image library, the PDF library and the *)
(* file system is an environment step whose outcome (returns / raises) is  *)
(* chosen nondeterministically, exactly where the code has a branch or an  *)
(* except clause for it.                                                   *)
(***************************************************************************)
EXTENDS Integers, Sequences, FiniteSets, TLC

\* The page ceiling of the capture loop.  The program sets max_pages = 300
\* (line 364); the model checks the same loop with a small ceiling.
max_pages == 3

\* Session ids of the jobs that can be submitted, and one id that is never
\* issued to any job (used by requests for an unknown session).
Jobs == {"s1"}
UnknownId == "u0"
Ids == Jobs \cup {UnknownId}

\* Python's None for the total_pages field.
None == -1

VARIABLES
    mode,               \* "web" (Flask) or "cli" (main()): the __main__ block
    download_progress,  \* the global dict: session id -> snapshot
    job,                \* per job: position and locals of the job thread
    req,                \* the request handler in flight (read-only handlers)
    main_ret,           \* value returned by main(); None while running
    exit_code,          \* exit status of the CLI process; None while running
    placement,          \* create_pdf: the last image size and where it was drawn
    navigation          \* navigate_to_next_page: the last call and what it did

\* The two records of single calls, written only by the specifications that
\* exercise one function on its own (SpecFit, SpecNav).
calls == <<placement, navigation>>

vars == <<mode, download_progress, job, req, main_ret, exit_code, placement, navigation>>

----------------------------------------------------------------------------
(* Snapshots and the dictionary *)

\* The dict literal written by BrowserExtractor.update_progress and by the
\* failure branches of download(): five keys, no file_path.
Snapshot(current_page, total_pages, status, completed, error) ==
    [current_page |-> current_page, total_pages |-> total_pages,
     status |-> status, completed |-> completed, error |-> error]

\* The dict literal of the success branch of download(): six keys.
SuccessSnapshot(n, output_pdf) ==
    [current_page |-> n, total_pages |-> n,
     status |-> "PDF created successfully! " \o ToString(n) \o " pages captured.",
     completed |-> TRUE, error |-> FALSE, file_path |-> output_pdf]

\* The literal of the final failure branch of download().
FailureSnapshot == Snapshot(0, 0, "Screenshot extraction failed", FALSE, TRUE)

\* The placeholder returned by get_progress for a missing key.
NotFoundSnapshot == Snapshot(0, 0, "Session not found", FALSE, TRUE)

\* The dict objects stored under one key, one after the other.  Every entry
\* carries, next to the keys of the Python dict, the record "log" of what was
\* stored under its key so far: log[i].oid numbers the dict object (1 for the
\* first one stored, the next number for each object that replaces it) and
\* log[i].val is that object's content after the i-th write.
Logged(log, oid, v) == Append(log, [oid |-> oid, val |-> v])
CurrentOid(snap) == snap.log[Len(snap.log)].oid
Content(snap) == [k \in (DOMAIN snap) \ {"log"} |-> snap[k]]

\* d[k] = v on a Python dict, v a new dict object: creates the key or
\* replaces its value; the object stored before lives on for whoever holds a
\* reference to it.
DictSet(d, k, v) ==
    [x \in (DOMAIN d) \cup {k} |->
        IF x = k
        THEN v @@ [log |-> IF k \in DOMAIN d
                           THEN Logged(d[k].log, CurrentOid(d[k]) + 1, v)
                           ELSE Logged(<<>>, 1, v)]
        ELSE d[x]]

\* Variant of update_progress that keeps one entry for all sessions.
update_progress_SharedKey(d, s, current_page, total_pages, status) ==
    DictSet(d, "s1", Snapshot(current_page, total_pages, status, FALSE, FALSE))

\* BrowserExtractor.update_progress: full overwrite of the session's entry,
\* completed and error always False.
update_progress(d, s, current_page, total_pages, status) ==
    DictSet(d, s, Snapshot(current_page, total_pages, status, FALSE, FALSE))

\* PdfGenerator.update_progress: in-place write of the status field only,
\* and only when the session already has an entry.
pdf_update_progress(d, s, status) ==
    IF s \in DOMAIN d
    THEN [d EXCEPT ![s] =
            [@ EXCEPT !.status = status,
                      !.log = Logged(@, CurrentOid(d[s]),
                                     [Content(d[s]) EXCEPT !.status = status])]]
    ELSE d

\* dict.get(key): the value, or None (falsy) when the key is missing.
HasKey(snap, k) == k \in DOMAIN snap

output_pdf(s) == "pubhtml5_book_" \o s \o ".pdf"

----------------------------------------------------------------------------
(* Job state *)

InitJob ==
    [pc           |-> "idle",
     attempt      |-> 1,       \* 1: setup_driver(headless=True), 2: headless=False
     setup_calls  |-> <<>>,    \* the headless argument of each setup_driver call
     setup_failures |-> 0,     \* setup_driver calls that returned False
     loaded       |-> FALSE,   \* driver.get(book_url) was called
     driver       |-> 0,       \* self.driver: 0 is None, else the browser's number
     made         |-> {},      \* browsers created by webdriver.Chrome
     quitted      |-> {},      \* browsers on which quit() was called
     max_pages    |-> max_pages, \* local of extract_pages: the page ceiling
     page_num     |-> 0,       \* loop variable of extract_pages
     pages        |-> <<>>,    \* local list of extract_pages (page indices)
     extracted    |-> <<>>,    \* pages in download(): what extract_pages returned
     dir_exists   |-> FALSE,   \* the temp_dir of the job
     files        |-> {},      \* page indices whose page_NNN.png is in temp_dir
     navs         |-> 0,       \* calls of navigate_to_next_page
     nav_fail_at  |-> 0,       \* page_num at which navigate returned False
     cap_tried    |-> {},      \* page indices passed to capture_current_page
     cap_failed   |-> {},      \* page indices whose capture returned None
     pdf_i        |-> 0,       \* position of create_pdf's loop in pages
     pdf          |-> <<>>,    \* page indices drawn and emitted with showPage
     pdf_calls    |-> 0,       \* calls of create_pdf
     pdf_ret      |-> "none",  \* return value of create_pdf
     pdf_saved    |-> FALSE,   \* c.save() has written output_pdf
     cleanups     |-> 0,       \* calls of _cleanup
     cleanup_err  |-> FALSE,   \* _cleanup's except clause ran
     result       |-> "none"]  \* return value of download()

\* No request in flight and none answered yet.
NoRequest ==
    [pc |-> "idle", kind |-> "none", sid |-> UnknownId, seen |-> "none",
     ref |-> 0, code |-> 0, body |-> [none |-> TRUE]]

\* No image drawn yet / navigate_to_next_page not called yet.
NoPlacement == [drawn |-> FALSE, img |-> <<0, 0>>]
NoNavigation == [called |-> FALSE]

\* The program after start-up: an empty tracker, no job started, no request.
InitProgram ==
    /\ mode \in {"web", "cli"}
    /\ download_progress = [k \in {} |-> FailureSnapshot]
    /\ job = [s \in Jobs |-> InitJob]
    /\ req = NoRequest
    /\ main_ret = None
    /\ exit_code = None

Init ==
    /\ InitProgram
    /\ placement = NoPlacement
    /\ navigation = NoNavigation

SetJob(s, r) == job' = [job EXCEPT ![s] = r]

----------------------------------------------------------------------------
(* Starting a job *)

\* POST /download: a fresh uuid, Thread(target=download_task).start().
Submit(s) ==
    /\ mode = "web"
    /\ job[s].pc = "idle"
    /\ SetJob(s, [job[s] EXCEPT !.pc = "new"])
    /\ UNCHANGED <<calls, mode, download_progress, req, main_ret, exit_code>>

\* main(): a fresh uuid; the downloader is constructed next.
Main(s) ==
    /\ mode = "cli"
    /\ main_ret = None /\ exit_code = None
    /\ job[s].pc = "idle"
    /\ SetJob(s, [job[s] EXCEPT !.pc = "new"])
    /\ UNCHANGED <<calls, mode, download_progress, req, main_ret, exit_code>>

\* PubHTML5Downloader.__init__: os.makedirs(temp_dir).  When it raises, the
\* exception leaves the constructor: download() is never called.  In CLI
\* mode the interpreter ends with a traceback and exit status 1.
DownloaderInit(s) ==
    /\ job[s].pc = "new"
    /\ \E ok \in BOOLEAN :
         IF ok
         THEN /\ SetJob(s, [job[s] EXCEPT !.pc = "setup", !.dir_exists = TRUE])
              /\ UNCHANGED exit_code
         ELSE /\ SetJob(s, [job[s] EXCEPT !.pc = "crashed"])
              /\ exit_code' = IF mode = "cli" THEN 1 ELSE exit_code
    /\ UNCHANGED <<calls, mode, download_progress, req, main_ret>>

----------------------------------------------------------------------------
(* BrowserExtractor.setup_driver and the head of extract_pages *)

\* setup_driver, first statement: update_progress(0, status=...).
SetupDriverStart(s) ==
    /\ job[s].pc = "setup"
    /\ download_progress' =
         update_progress(download_progress, s, 0, None, "Initializing browser...")
    /\ SetJob(s, [job[s] EXCEPT !.pc = "chrome",
                                !.setup_calls = Append(@, job[s].attempt = 1)])
    /\ UNCHANGED <<calls, mode, req, main_ret, exit_code>>

\* setup_driver, the rest of the try block.  webdriver.Chrome may raise
\* (self.driver keeps its value), or return a browser after which
\* set_window_size / execute_script may still raise (self.driver is set, the
\* function returns False all the same).
SetupDriverChrome(s) ==
    /\ job[s].pc = "chrome"
    /\ \E outcome \in {"ok", "raise_before", "raise_after"} :
         LET b == job[s].attempt
             created == outcome # "raise_before"
             j0 == IF outcome = "ok"
                   THEN job[s]
                   ELSE [job[s] EXCEPT !.setup_failures = @ + 1]
             j1 == IF created
                   THEN [j0 EXCEPT !.driver = b, !.made = @ \cup {b}]
                   ELSE j0
         IN IF outcome = "ok"
            THEN /\ SetJob(s, [j1 EXCEPT !.pc = "load"])
                 /\ UNCHANGED download_progress
            ELSE /\ download_progress' =
                      update_progress(download_progress, s, 0, None,
                                      "Error initializing browser: <exc>")
                 /\ SetJob(s, IF b = 1
                              THEN [j1 EXCEPT !.pc = "setup", !.attempt = 2]
                              ELSE [j1 EXCEPT !.pc = "init_failed"])
    /\ UNCHANGED <<calls, mode, req, main_ret, exit_code>>

\* Variant of InitFailed that goes on to load the book.
InitFailed_LoadsAnyway(s) ==
    /\ job[s].pc = "init_failed"
    /\ download_progress' =
         update_progress(download_progress, s, 0, None, "Failed to initialize browser")
    /\ SetJob(s, [job[s] EXCEPT !.pc = "load"])
    /\ UNCHANGED <<calls, mode, req, main_ret, exit_code>>

\* extract_pages, both setup_driver calls returned False: update_progress and
\* `return []`.  This return is before the try statement, so the finally
\* clause does not run.
InitFailed(s) ==
    /\ job[s].pc = "init_failed"
    /\ download_progress' =
         update_progress(download_progress, s, 0, None, "Failed to initialize browser")
    /\ SetJob(s, [job[s] EXCEPT !.pc = "post_extract", !.extracted = <<>>])
    /\ UNCHANGED <<calls, mode, req, main_ret, exit_code>>

\* The finally clause of extract_pages: if self.driver: self.driver.quit(),
\* any exception of quit() swallowed; then the function returns `ret`.
Return(j, ret) ==
    [j EXCEPT !.pc = "post_extract",
              !.extracted = ret,
              !.quitted = IF j.driver # 0 THEN @ \cup {j.driver} ELSE @]

\* update_progress(0, "Loading book page...") and driver.get(book_url),
\* which may raise into the except clause of extract_pages.
LoadBook(s) ==
    /\ job[s].pc = "load"
    /\ download_progress' =
         update_progress(download_progress, s, 0, None, "Loading book page...")
    /\ \E ok \in BOOLEAN :
         SetJob(s, [job[s] EXCEPT !.pc = IF ok THEN "wait" ELSE "except",
                                  !.loaded = TRUE])
    /\ UNCHANGED <<calls, mode, req, main_ret, exit_code>>

\* update_progress(0, "Waiting for book to load...") and time.sleep(15).
WaitForBook(s) ==
    /\ job[s].pc = "wait"
    /\ download_progress' =
         update_progress(download_progress, s, 0, None, "Waiting for book to load...")
    /\ SetJob(s, [job[s] EXCEPT !.pc = "locate"])
    /\ UNCHANGED <<calls, mode, req, main_ret, exit_code>>

\* update_progress(0, "Locating first page...") and the best-effort jump to
\* the first page; every failure in it is swallowed.
LocateFirstPage(s) ==
    /\ job[s].pc = "locate"
    /\ download_progress' =
         update_progress(download_progress, s, 0, None, "Locating first page...")
    /\ SetJob(s, [job[s] EXCEPT !.pc = "first"])
    /\ UNCHANGED <<calls, mode, req, main_ret, exit_code>>

\* The except clause of extract_pages: update_progress(0, "Error during
\* extraction: ..."), return [], then the finally clause.
ExtractionError(s) ==
    /\ job[s].pc = "except"
    /\ download_progress' =
         update_progress(download_progress, s, 0, None, "Error during extraction: <exc>")
    /\ SetJob(s, Return(job[s], <<>>))
    /\ UNCHANGED <<calls, mode, req, main_ret, exit_code>>

----------------------------------------------------------------------------
(* The capture loop of extract_pages *)

\* Variant of PageRange with the upper end off by one.
PageRange_OffByOne(j) == 2..(j.max_pages + 1)

\* range(2, max_pages + 1)
PageRange(j) == 2..j.max_pages

\* `if not first_page` / `if img_path` / `if pages`: truthiness of a result.
\* capture_current_page catches every exception and returns None; its result
\* is a path (True here) or None (False).
CaptureOutcomes == BOOLEAN

\* Variant of CaptureFirstPage that treats a failed first capture the way the
\* loop treats a failed capture: skip it and go on.
CaptureFirstPage_SkipFailure(s) ==
    /\ job[s].pc = "first"
    /\ download_progress' =
         update_progress(download_progress, s, 1, None, "Capturing first page...")
    /\ \E captured \in CaptureOutcomes :
         LET j1 == [job[s] EXCEPT !.cap_tried = @ \cup {1}, !.pc = "loop",
                                  !.page_num = 1]
         IN IF captured
            THEN SetJob(s, [j1 EXCEPT !.pages = <<1>>, !.files = @ \cup {1}])
            ELSE SetJob(s, [j1 EXCEPT !.cap_failed = @ \cup {1}])
    /\ UNCHANGED <<calls, mode, req, main_ret, exit_code>>

\* update_progress(1, "Capturing first page...") and capture_current_page(1).
\* On success pages.append((1, first_page)).
CaptureFirstPage(s) ==
    /\ job[s].pc = "first"
    /\ download_progress' =
         update_progress(download_progress, s, 1, None, "Capturing first page...")
    /\ \E captured \in CaptureOutcomes :
         LET j1 == [job[s] EXCEPT !.cap_tried = @ \cup {1}]
         IN IF captured
            THEN SetJob(s, [j1 EXCEPT !.pc = "loop", !.page_num = 1,
                                      !.pages = <<1>>, !.files = @ \cup {1}])
            ELSE SetJob(s, [j1 EXCEPT !.pc = "first_failed",
                                      !.cap_failed = @ \cup {1}])
    /\ UNCHANGED <<calls, mode, req, main_ret, exit_code>>

\* `if not first_page`: update_progress(0, "Failed to capture first page"),
\* return [], then the finally clause.
FirstPageFailed(s) ==
    /\ job[s].pc = "first_failed"
    /\ download_progress' =
         update_progress(download_progress, s, 0, None, "Failed to capture first page")
    /\ SetJob(s, Return(job[s], <<>>))
    /\ UNCHANGED <<calls, mode, req, main_ret, exit_code>>

\* One iteration head: the for statement takes the next page_num,
\* update_progress(page_num, "Capturing page N...") and
\* navigate_to_next_page(), which returns True or False and does not raise.
NextPage(s) ==
    /\ job[s].pc = "loop"
    /\ job[s].page_num + 1 \in PageRange(job[s])
    /\ LET n == job[s].page_num + 1
       IN /\ download_progress' =
               update_progress(download_progress, s, n, None,
                               "Capturing page " \o ToString(n) \o "...")
          /\ \E navigated \in BOOLEAN :
               SetJob(s, [job[s] EXCEPT
                            !.page_num = n,
                            !.navs = @ + 1,
                            !.nav_fail_at = IF navigated THEN @ ELSE n,
                            !.pc = IF navigated THEN "capture" ELSE "nav_failed"])
    /\ UNCHANGED <<calls, mode, req, main_ret, exit_code>>

\* `if not self.navigate_to_next_page()`: update_progress(page_num - 1,
\* page_num - 1, "Completed! Captured N pages"), break, return pages, finally.
NavFailed(s) ==
    /\ job[s].pc = "nav_failed"
    /\ LET n == job[s].page_num - 1
       IN download_progress' =
            update_progress(download_progress, s, n, n,
                            "Completed! Captured " \o ToString(n) \o " pages")
    /\ SetJob(s, Return(job[s], job[s].pages))
    /\ UNCHANGED <<calls, mode, req, main_ret, exit_code>>

\* Variant of CapturePage in which a failed capture ends the loop.
CapturePage_AbortOnFailure(s) ==
    /\ job[s].pc = "capture"
    /\ \E captured \in CaptureOutcomes :
         LET n == job[s].page_num
             j1 == [job[s] EXCEPT !.pc = "loop", !.cap_tried = @ \cup {n}]
         IN IF captured
            THEN SetJob(s, [j1 EXCEPT !.pages = Append(@, n), !.files = @ \cup {n}])
            ELSE SetJob(s, Return([j1 EXCEPT !.cap_failed = @ \cup {n}], j1.pages))
    /\ UNCHANGED <<calls, mode, download_progress, req, main_ret, exit_code>>

\* Variant of CapturePage that appends the record without testing img_path.
CapturePage_AppendAlways(s) ==
    /\ job[s].pc = "capture"
    /\ \E captured \in CaptureOutcomes :
         LET n == job[s].page_num
             j1 == [job[s] EXCEPT !.pc = "loop", !.cap_tried = @ \cup {n},
                                  !.pages = Append(@, n)]
         IN IF captured
            THEN SetJob(s, [j1 EXCEPT !.files = @ \cup {n}])
            ELSE SetJob(s, [j1 EXCEPT !.cap_failed = @ \cup {n}])
    /\ UNCHANGED <<calls, mode, download_progress, req, main_ret, exit_code>>

\* time.sleep(2), capture_current_page(page_num); `if img_path:`
\* pages.append((page_num, img_path)), else only a warning is logged.  The
\* loop goes on to the next page_num either way.
CapturePage(s) ==
    /\ job[s].pc = "capture"
    /\ \E captured \in CaptureOutcomes :
         LET n == job[s].page_num
             j1 == [job[s] EXCEPT !.pc = "loop", !.cap_tried = @ \cup {n}]
         IN IF captured
            THEN SetJob(s, [j1 EXCEPT !.pages = Append(@, n), !.files = @ \cup {n}])
            ELSE SetJob(s, [j1 EXCEPT !.cap_failed = @ \cup {n}])
    /\ UNCHANGED <<calls, mode, download_progress, req, main_ret, exit_code>>

\* The range is exhausted: return pages, then the finally clause.
LoopExhausted(s) ==
    /\ job[s].pc = "loop"
    /\ job[s].page_num + 1 \notin PageRange(job[s])
    /\ SetJob(s, Return(job[s], job[s].pages))
    /\ UNCHANGED <<calls, mode, download_progress, req, main_ret, exit_code>>

----------------------------------------------------------------------------
(* PdfGenerator.create_pdf *)

\* Variant of Truthy that needs more than one element.
Truthy_MoreThanOne(list) == Len(list) > 1

\* `if pages:` in download() (and `if not pages:` in create_pdf).
Truthy(list) == Len(list) > 0

\* download() calls create_pdf(pages); update_progress("Creating PDF with N
\* pages...") and the canvas is created.
CreatePdfStart(s) ==
    /\ job[s].pc = "post_extract"
    /\ Truthy(job[s].extracted)
    /\ download_progress' =
         pdf_update_progress(download_progress, s,
            "Creating PDF with " \o ToString(Len(job[s].extracted)) \o " pages...")
    /\ SetJob(s, [job[s] EXCEPT !.pc = "pdf_loop", !.pdf_i = 1, !.pdf_calls = @ + 1])
    /\ UNCHANGED <<calls, mode, req, main_ret, exit_code>>

\* Variant of AddPage in which a failed draw ends create_pdf with False
\* (the error reaches the outer except clause).
AddPage_AbortOnDrawFailure(s) ==
    /\ job[s].pc = "pdf_loop"
    /\ job[s].pdf_i <= Len(job[s].extracted)
    /\ LET n == job[s].extracted[job[s].pdf_i]
       IN /\ download_progress' =
               pdf_update_progress(download_progress, s,
                  "Adding page " \o ToString(n) \o " to PDF...")
          /\ \E drawn \in BOOLEAN :
               IF drawn
               THEN SetJob(s, [job[s] EXCEPT !.pdf_i = @ + 1, !.pdf = Append(@, n)])
               ELSE SetJob(s, [job[s] EXCEPT !.pc = "mark_failed", !.pdf_ret = "false"])
    /\ UNCHANGED <<calls, mode, req, main_ret, exit_code>>

\* Variant of AddPage that deletes the page image once it is drawn.
AddPage_RemovesImage(s) ==
    /\ job[s].pc = "pdf_loop"
    /\ job[s].pdf_i <= Len(job[s].extracted)
    /\ LET n == job[s].extracted[job[s].pdf_i]
       IN /\ download_progress' =
               pdf_update_progress(download_progress, s,
                  "Adding page " \o ToString(n) \o " to PDF...")
          /\ \E drawn \in BOOLEAN :
               SetJob(s, [job[s] EXCEPT
                            !.pdf_i = @ + 1,
                            !.files = IF drawn THEN @ \ {n} ELSE @,
                            !.pdf = IF drawn THEN Append(@, n) ELSE @])
    /\ UNCHANGED <<calls, mode, req, main_ret, exit_code>>

\* One iteration of the for loop: update_progress("Adding page N to PDF...")
\* then Image.open / drawImage / showPage.  If any of them raises, the inner
\* except clause logs the error and the loop goes on: no page is emitted for
\* this image.
AddPage(s) ==
    /\ job[s].pc = "pdf_loop"
    /\ job[s].pdf_i <= Len(job[s].extracted)
    /\ LET n == job[s].extracted[job[s].pdf_i]
       IN /\ download_progress' =
               pdf_update_progress(download_progress, s,
                  "Adding page " \o ToString(n) \o " to PDF...")
          /\ \E drawn \in BOOLEAN :
               SetJob(s, [job[s] EXCEPT
                            !.pdf_i = @ + 1,
                            !.pdf = IF drawn THEN Append(@, n) ELSE @])
    /\ UNCHANGED <<calls, mode, req, main_ret, exit_code>>

\* After the loop: update_progress("Finalizing PDF...").
FinalizePdf(s) ==
    /\ job[s].pc = "pdf_loop"
    /\ job[s].pdf_i > Len(job[s].extracted)
    /\ download_progress' =
         pdf_update_progress(download_progress, s, "Finalizing PDF...")
    /\ SetJob(s, [job[s] EXCEPT !.pc = "save"])
    /\ UNCHANGED <<calls, mode, req, main_ret, exit_code>>

\* c.save(): returns (create_pdf returns True) or raises into the outer
\* except clause (update_progress("Error creating PDF: ..."), return False).
SavePdf(s) ==
    /\ job[s].pc = "save"
    /\ \E saved \in BOOLEAN :
         IF saved
         THEN /\ SetJob(s, [job[s] EXCEPT !.pc = "mark_done", !.pdf_saved = TRUE,
                                          !.pdf_ret = "true"])
              /\ UNCHANGED download_progress
         ELSE /\ SetJob(s, [job[s] EXCEPT !.pc = "mark_failed", !.pdf_ret = "false"])
              /\ download_progress' =
                   pdf_update_progress(download_progress, s, "Error creating PDF: <exc>")
    /\ UNCHANGED <<calls, mode, req, main_ret, exit_code>>

----------------------------------------------------------------------------
(* The tail of PubHTML5Downloader.download and _cleanup *)

\* Variant of MarkCompleted without the `return True`: the job falls through
\* to the failure branch.
MarkCompleted_FallsThrough(s) ==
    /\ job[s].pc = "mark_done"
    /\ download_progress' =
         DictSet(download_progress, s,
                 SuccessSnapshot(Len(job[s].extracted), output_pdf(s)))
    /\ SetJob(s, [job[s] EXCEPT !.pc = "mark_failed"])
    /\ UNCHANGED <<calls, mode, req, main_ret, exit_code>>

\* `if pdf_generator.create_pdf(pages):` the success snapshot is stored.
MarkCompleted(s) ==
    /\ job[s].pc = "mark_done"
    /\ download_progress' =
         DictSet(download_progress, s,
                 SuccessSnapshot(Len(job[s].extracted), output_pdf(s)))
    /\ SetJob(s, [job[s] EXCEPT !.pc = "cleanup_ok"])
    /\ UNCHANGED <<calls, mode, req, main_ret, exit_code>>

\* Fall-through of download(): no pages, or create_pdf returned False.
MarkFailed(s) ==
    /\ \/ job[s].pc = "post_extract" /\ ~Truthy(job[s].extracted)
       \/ job[s].pc = "mark_failed"
    /\ download_progress' = DictSet(download_progress, s, FailureSnapshot)
    /\ SetJob(s, [job[s] EXCEPT !.pc = "cleanup_fail"])
    /\ UNCHANGED <<calls, mode, req, main_ret, exit_code>>

\* _cleanup: os.listdir, os.remove for each file, os.rmdir; any exception
\* ends the function in its except clause (a warning is logged).  `kept` is
\* the set of files not removed when the function ends: empty when every
\* remove returned, anything else when listdir or a remove raised.
\* rmdir_ok tells whether os.rmdir returned.
cleanup(j, kept, rmdir_ok) ==
    [j EXCEPT !.cleanups = @ + 1,
              !.files = kept,
              !.dir_exists = ~(kept = {} /\ rmdir_ok),
              !.cleanup_err = ~(kept = {} /\ rmdir_ok)]

\* Variant of Cleanup in which the success branch returns without calling
\* _cleanup.
Cleanup_OnlyOnFailure(s) ==
    /\ job[s].pc \in {"cleanup_ok", "cleanup_fail"}
    /\ IF job[s].pc = "cleanup_ok"
       THEN SetJob(s, [job[s] EXCEPT !.pc = "done", !.result = "true"])
       ELSE \E kept \in SUBSET job[s].files, rmdir_ok \in BOOLEAN :
              SetJob(s, [cleanup(job[s], kept, rmdir_ok) EXCEPT
                           !.pc = "done", !.result = "false"])
    /\ UNCHANGED <<calls, mode, download_progress, req, main_ret, exit_code>>

\* self._cleanup() and the return statement of download().
Cleanup(s) ==
    /\ job[s].pc \in {"cleanup_ok", "cleanup_fail"}
    /\ \E kept \in SUBSET job[s].files, rmdir_ok \in BOOLEAN :
         SetJob(s, [cleanup(job[s], kept, rmdir_ok) EXCEPT
                      !.pc = "done",
                      !.result = IF job[s].pc = "cleanup_ok" THEN "true" ELSE "false"])
    /\ UNCHANGED <<calls, mode, download_progress, req, main_ret, exit_code>>

----------------------------------------------------------------------------
(* Command-line mode *)

\* main(): `return 0 if success else 1`.
MainResult(success) == IF success THEN 0 ELSE 1

\* The __main__ block calls `main()` as a bare statement: the returned value
\* is dropped and the interpreter ends normally, with exit status 0.
ExitStatus(ret) == 0

MainReturn(s) ==
    /\ mode = "cli"
    /\ job[s].pc = "done"
    /\ main_ret = None
    /\ main_ret' = MainResult(job[s].result = "true")
    /\ exit_code' = ExitStatus(main_ret')
    /\ UNCHANGED <<calls, mode, download_progress, job, req>>

----------------------------------------------------------------------------
(* Request handlers.  They only read download_progress and the file system, *)
(* so one request in flight at a time shows every interleaving of a handler *)
(* with the job thread.  req.seen records what the handler's reads found,   *)
(* req.code and req.body are the response once req.pc = "sent".             *)

Request(kind, sid) ==
    [pc |-> "start", kind |-> kind, sid |-> sid, seen |-> "none",
     ref |-> 0, code |-> 0, body |-> [none |-> TRUE]]

Respond(r, seen, code, body) ==
    [r EXCEPT !.pc = "sent", !.seen = seen, !.code = code, !.body = body]

\* A client sends GET /progress/<sid> or GET /download-file/<sid>.
Receive(kind, sid) ==
    /\ mode = "web"
    /\ req.pc \in {"idle", "sent"}
    /\ req' = Request(kind, sid)
    /\ UNCHANGED <<calls, mode, download_progress, job, main_ret, exit_code>>

\* Variant of get_progress_test whose placeholder does not set the error flag.
get_progress_test_NoErrorFlag(r, d) ==
    IF r.sid \in DOMAIN d
    THEN [r EXCEPT !.pc = "lookup", !.seen = "present"]
    ELSE Respond(r, "absent", 200, Snapshot(0, 0, "Session not found", FALSE, FALSE))

\* get_progress: `if session_id in download_progress:`; the else branch
\* returns the placeholder literal at once.
get_progress_test(r, d) ==
    IF r.sid \in DOMAIN d
    THEN [r EXCEPT !.pc = "lookup", !.seen = "present"]
    ELSE Respond(r, "absent", 200, NotFoundSnapshot)

\* get_progress: `download_progress[session_id]`, the argument of jsonify:
\* a reference to the dict object stored under the key at this moment (r.ref
\* is its number); a missing key would raise KeyError (HTTP 500).
get_progress_lookup(r, d) ==
    IF r.sid \in DOMAIN d
    THEN [r EXCEPT !.pc = "serialize", !.ref = CurrentOid(d[r.sid]), !.body = <<>>]
    ELSE Respond(r, r.seen, 500, [error |-> "KeyError"])

\* Variant of HeldObject that looks the key up again at every read.
HeldObject_LooksUpAgain(d, sid, ref) == Content(d[sid])

\* The present content of dict object number ref of key sid: what the last
\* write to that object left.  In-place writes by the job thread show
\* through the reference; a replaced object keeps its last content.
HeldObject(d, sid, ref) ==
    LET log == d[sid].log
        last == CHOOSE i \in 1..Len(log) :
                   /\ log[i].oid = ref
                   /\ \A k \in (i+1)..Len(log) : log[k].oid # ref
    IN log[last].val

\* The keys of a snapshot in the order jsonify writes them (sort_keys).
SortedKeys == <<"completed", "current_page", "error", "file_path", "status", "total_pages">>
KeysOf(obj) == SelectSeq(SortedKeys, LAMBDA k : k \in DOMAIN obj)

\* jsonify(obj): the keys of the held object are read one after the other;
\* the job thread may run between two reads.  The response is sent once
\* every key has been read.
get_progress_serialize(r, d) ==
    LET obj  == HeldObject(d, r.sid, r.ref)
        keys == KeysOf(obj)
        key  == keys[Cardinality(DOMAIN r.body) + 1]
        body == r.body @@ (key :> obj[key])
    IN IF DOMAIN body = DOMAIN obj
       THEN Respond(r, r.seen, 200, body)
       ELSE [r EXCEPT !.body = body]

GetProgressTest ==
    /\ req.pc = "start" /\ req.kind = "progress"
    /\ req' = get_progress_test(req, download_progress)
    /\ UNCHANGED <<calls, mode, download_progress, job, main_ret, exit_code>>

GetProgressLookup ==
    /\ req.pc = "lookup" /\ req.kind = "progress"
    /\ req' = get_progress_lookup(req, download_progress)
    /\ UNCHANGED <<calls, mode, download_progress, job, main_ret, exit_code>>

GetProgressSerialize ==
    /\ req.pc = "serialize" /\ req.kind = "progress"
    /\ req' = get_progress_serialize(req, download_progress)
    /\ UNCHANGED <<calls, mode, download_progress, job, main_ret, exit_code>>

NotCompletedBody == [error |-> "Download not completed or session not found"]
FileNotFoundBody == [error |-> "File not found"]
SendFailedBody == [error |-> "File download failed"]

\* os.path.exists(path): the output file of a job exists once c.save()
\* returned; nothing in the program removes it.
PathExists(path) == \E s \in DOMAIN job : path = output_pdf(s) /\ job[s].pdf_saved

\* download_file, left operand of the `and`: `session_id in download_progress`.
download_file_test(r, d) ==
    IF r.sid \in DOMAIN d
    THEN [r EXCEPT !.pc = "completed", !.seen = "present"]
    ELSE Respond(r, "absent", 404, NotCompletedBody)

\* Variant of download_file_completed that serves the session's output file
\* as soon as it is on disk, without looking at the completed flag.
download_file_completed_FileOnDisk(r, d) ==
    IF r.sid \notin DOMAIN d
    THEN Respond(r, r.seen, 500, [error |-> "KeyError"])
    ELSE LET seen == IF HasKey(d[r.sid], "completed") /\ d[r.sid].completed
                     THEN "completed" ELSE "incomplete"
         IN IF PathExists(output_pdf(r.sid))
            THEN Respond(r, seen, 200, [file |-> output_pdf(r.sid)])
            ELSE Respond(r, seen, 404, NotCompletedBody)

\* download_file, right operand: download_progress[session_id].get('completed').
download_file_completed(r, d) ==
    IF r.sid \notin DOMAIN d
    THEN Respond(r, r.seen, 500, [error |-> "KeyError"])
    ELSE IF HasKey(d[r.sid], "completed") /\ d[r.sid].completed
         THEN [r EXCEPT !.pc = "path", !.seen = "completed"]
         ELSE Respond(r, "incomplete", 404, NotCompletedBody)

\* download_file, the body of the if: .get('file_path'), os.path.exists and
\* send_file, which returns the file (sent = TRUE) or raises (HTTP 500).
download_file_send(r, d, sent) ==
    IF r.sid \notin DOMAIN d
    THEN Respond(r, r.seen, 500, [error |-> "KeyError"])
    ELSE IF HasKey(d[r.sid], "file_path") /\ PathExists(d[r.sid].file_path)
         THEN IF sent
              THEN Respond(r, r.seen, 200, [file |-> d[r.sid].file_path])
              ELSE Respond(r, r.seen, 500, SendFailedBody)
         ELSE Respond(r, r.seen, 404, FileNotFoundBody)

DownloadFileTest ==
    /\ req.pc = "start" /\ req.kind = "file"
    /\ req' = download_file_test(req, download_progress)
    /\ UNCHANGED <<calls, mode, download_progress, job, main_ret, exit_code>>

DownloadFileCompleted ==
    /\ req.pc = "completed" /\ req.kind = "file"
    /\ req' = download_file_completed(req, download_progress)
    /\ UNCHANGED <<calls, mode, download_progress, job, main_ret, exit_code>>

DownloadFileSend ==
    /\ req.pc = "path" /\ req.kind = "file"
    /\ \E sent \in BOOLEAN : req' = download_file_send(req, download_progress, sent)
    /\ UNCHANGED <<calls, mode, download_progress, job, main_ret, exit_code>>

----------------------------------------------------------------------------
(* PdfGenerator.create_pdf: the size and position of one image.  The code  *)
(* computes with floats; the model computes the same expressions exactly,  *)
(* with fractions [n, d], d > 0.                                           *)

\* page_width, page_height = letter  (reportlab: 8.5 x 11 inches at 72 dpi)
page_width == 612
page_height == 792

\* The literals of `page_width - 50`, `page_height - 50` and of the
\* drawImage position (25, page_height - height - 25).
FitInset == 50
DrawOffset == 25

\* Fractions are kept in lowest terms.
RECURSIVE GCD(_, _)
GCD(a, b) == IF b = 0 THEN a ELSE GCD(b, a % b)
Abs(a) == IF a < 0 THEN -a ELSE a
Frac(n, d) == [n |-> n \div GCD(Abs(n), d), d |-> d \div GCD(Abs(n), d)]
FracMul(a, b) == Frac(a.n * b.n, a.d * b.d)
FracDiv(a, b) == Frac(a.n * b.d, a.d * b.n)
FracSub(a, b) == Frac(a.n * b.d - b.n * a.d, a.d * b.d)
FracAdd(a, b) == Frac(a.n * b.d + b.n * a.d, a.d * b.d)
FracLe(a, b) == a.n * b.d <= b.n * a.d
FracEq(a, b) == a.n * b.d = b.n * a.d
FracGt(a, b) == ~FracLe(a, b)
Whole(k) == Frac(k, 1)

\* Variant of FitImage that compares the height with the full page height.
FitImage_FullPageHeight(img_width, img_height) ==
    LET aspect == Frac(img_height, img_width)
        width  == Whole(page_width - FitInset)
        height == FracMul(width, aspect)
        tall   == FracGt(height, Whole(page_height))
        height2 == IF tall THEN Whole(page_height - FitInset) ELSE height
        width2  == IF tall THEN FracDiv(height2, aspect) ELSE width
    IN [by_height |-> tall,
        width |-> width2, height |-> height2,
        x |-> Whole(DrawOffset),
        y |-> FracSub(FracSub(Whole(page_height), height2), Whole(DrawOffset))]

\* aspect = img_height / img_width; width = page_width - 50;
\* height = width * aspect; if height > page_height - 50: height =
\* page_height - 50, width = height / aspect;
\* drawImage(img_path, 25, page_height - height - 25, width, height).
FitImage(img_width, img_height) ==
    LET aspect == Frac(img_height, img_width)
        width  == Whole(page_width - FitInset)
        height == FracMul(width, aspect)
        tall   == FracGt(height, Whole(page_height - FitInset))
        height2 == IF tall THEN Whole(page_height - FitInset) ELSE height
        width2  == IF tall THEN FracDiv(height2, aspect) ELSE width
    IN [by_height |-> tall,
        width |-> width2, height |-> height2,
        x |-> Whole(DrawOffset),
        y |-> FracSub(FracSub(Whole(page_height), height2), Whole(DrawOffset))]

\* Image sizes tried: every size up to MaxDim x MaxDim, the two sizes on
\* either side of the point where the scaling switches (371/281 is exactly
\* (page_height - 50)/(page_width - 50)), and two screenshot sizes.
MaxDim == 10
ImageSizes ==
    ((1..MaxDim) \X (1..MaxDim))
      \cup {<<281, 371>>, <<281, 372>>, <<1920, 1080>>, <<1080, 1920>>}

\* The image opened by the loop of create_pdf (img.size) goes through the
\* loop body.
DrawImage ==
    /\ ~placement.drawn
    /\ placement' = [drawn |-> TRUE, img |-> placement.img,
                     fit |-> FitImage(placement.img[1], placement.img[2])]
    /\ UNCHANGED <<mode, download_progress, job, req, main_ret, exit_code, navigation>>

InitFit ==
    /\ InitProgram
    /\ mode = "web"
    /\ placement \in {[drawn |-> FALSE, img |-> size] : size \in ImageSizes}
    /\ navigation = NoNavigation
NextFit == DrawImage
SpecFit == InitFit /\ [][NextFit]_vars

----------------------------------------------------------------------------
(* BrowserExtractor.navigate_to_next_page.  The page decides which          *)
(* interactions are possible and which of them raise:                       *)
(*   buttons  the displayed elements matched by button_selectors, in the    *)
(*            order the loops reach them; "click": element.click() returns, *)
(*            "js": click() raises and the scripted click returns,          *)
(*            "raise": both raise;                                          *)
(*   keys     "ok": the ActionChains key press returns, "js": it raises and *)
(*            the scripted key event returns, "raise": both raise;          *)
(*   inputs   the displayed page-input fields whose value is read, in       *)
(*            order; "ok" or "raise" for int()/clear()/send_keys();         *)
(*   scripts  one entry per element of js_methods; "ok" or "raise" for      *)
(*            execute_script.                                               *)
(* Elements that are not displayed, and elements the loops never reach      *)
(* because find_elements, is_displayed or get_attribute raised first, take  *)
(* part in no interaction and are not listed.                               *)
(* The result is the return value and the interactions performed, in order. *)

Tried(strategy, kind, target, raised) ==
    [strategy |-> strategy, kind |-> kind, target |-> target, raised |-> raised]

\* The call returned True exactly if its last interaction did not raise.
Accepted(trace) == Len(trace) > 0 /\ ~trace[Len(trace)].raised

\* Method 1: click each button; on failure the scripted click on the same
\* element; return at the first that does not raise.
RECURSIVE ClickButtons(_, _)
ClickButtons(buttons, i) ==
    IF i > Len(buttons) THEN <<>>
    ELSE LET click == Tried(1, "click", i, buttons[i] # "click")
             js    == Tried(1, "js_click", i, buttons[i] = "raise")
         IN IF buttons[i] = "click" THEN <<click>>
            ELSE IF buttons[i] = "js" THEN <<click, js>>
            ELSE <<click, js>> \o ClickButtons(buttons, i + 1)

\* Method 2: right-arrow key on the body, else the scripted key event.
PressKey(keys) ==
    IF keys = "ok" THEN <<Tried(2, "arrow_key", 1, FALSE)>>
    ELSE <<Tried(2, "arrow_key", 1, TRUE), Tried(2, "key_event", 1, keys = "raise")>>

\* Method 3: increment the value of a displayed page-input field.
RECURSIVE FillInputs(_, _)
FillInputs(inputs, i) ==
    IF i > Len(inputs) THEN <<>>
    ELSE IF inputs[i] = "ok" THEN <<Tried(3, "page_input", i, FALSE)>>
    ELSE <<Tried(3, "page_input", i, TRUE)>> \o FillInputs(inputs, i + 1)

\* Method 4: the scripted viewer calls of js_methods.
RECURSIVE RunScripts(_, _)
RunScripts(scripts, i) ==
    IF i > Len(scripts) THEN <<>>
    ELSE IF scripts[i] = "ok" THEN <<Tried(4, "script", i, FALSE)>>
    ELSE <<Tried(4, "script", i, TRUE)>> \o RunScripts(scripts, i + 1)

\* Variant of navigate_to_next_page that runs the scripted calls before the
\* page-input field.
navigate_to_next_page_ScriptsFirst(driver, env) ==
    IF ~driver THEN [ret |-> FALSE, trace |-> <<>>]
    ELSE LET t1 == ClickButtons(env.buttons, 1)
             t2 == t1 \o PressKey(env.keys)
             t3 == t2 \o RunScripts(env.scripts, 1)
             t4 == t3 \o FillInputs(env.inputs, 1)
             t  == IF Accepted(t1) THEN t1 ELSE IF Accepted(t2) THEN t2
                   ELSE IF Accepted(t3) THEN t3 ELSE t4
         IN [ret |-> Accepted(t), trace |-> t]

\* `if not self.driver: return False`, then methods 1 to 4 in turn, each
\* returning True at its first interaction that does not raise; False after
\* the last one.
navigate_to_next_page(driver, env) ==
    IF ~driver THEN [ret |-> FALSE, trace |-> <<>>]
    ELSE LET t1 == ClickButtons(env.buttons, 1)
             t2 == t1 \o PressKey(env.keys)
             t3 == t2 \o FillInputs(env.inputs, 1)
             t4 == t3 \o RunScripts(env.scripts, 1)
             t  == IF Accepted(t1) THEN t1 ELSE IF Accepted(t2) THEN t2
                   ELSE IF Accepted(t3) THEN t3 ELSE t4
         IN [ret |-> Accepted(t), trace |-> t]

\* Pages tried: up to MaxButtons displayed buttons, up to MaxInputs displayed
\* input fields, and NumScripts scripted calls (js_methods has 10).
MaxButtons == 2
MaxInputs == 1
NumScripts == 3
SeqsUpTo(S, n) == UNION {[1..k -> S] : k \in 0..n}
NavEnvs ==
    [buttons : SeqsUpTo({"click", "js", "raise"}, MaxButtons),
     keys    : {"ok", "js", "raise"},
     inputs  : SeqsUpTo({"ok", "raise"}, MaxInputs),
     scripts : [1..NumScripts -> {"ok", "raise"}]]

\* The call of navigate_to_next_page on the page and browser at hand.
Navigate ==
    /\ ~navigation.called
    /\ navigation' =
          [called |-> TRUE, driver |-> navigation.driver, env |-> navigation.env,
           ret |-> navigate_to_next_page(navigation.driver, navigation.env).ret,
           trace |-> navigate_to_next_page(navigation.driver, navigation.env).trace]
    /\ UNCHANGED <<mode, download_progress, job, req, main_ret, exit_code, placement>>

InitNav ==
    /\ InitProgram
    /\ mode = "web"
    /\ placement = NoPlacement
    /\ navigation \in {[called |-> FALSE, driver |-> driver, env |-> env] :
                          driver \in BOOLEAN, env \in NavEnvs}
NextNav == Navigate
SpecNav == InitNav /\ [][NextNav]_vars

----------------------------------------------------------------------------
(* The system *)

\* The steps of a job of the web application: POST /download and the
\* background thread it starts.
ThreadStep(s) ==
    \/ Submit(s) \/ DownloaderInit(s)
    \/ SetupDriverStart(s) \/ SetupDriverChrome(s) \/ InitFailed(s)
    \/ LoadBook(s) \/ WaitForBook(s) \/ LocateFirstPage(s) \/ ExtractionError(s)
    \/ CaptureFirstPage(s) \/ FirstPageFailed(s)
    \/ NextPage(s) \/ NavFailed(s) \/ CapturePage(s) \/ LoopExhausted(s)
    \/ CreatePdfStart(s) \/ AddPage(s) \/ FinalizePdf(s) \/ SavePdf(s)
    \/ MarkCompleted(s) \/ MarkFailed(s) \/ Cleanup(s)

JobStep(s) == ThreadStep(s) \/ Main(s) \/ MainReturn(s)

HandlerStep ==
    \/ \E kind \in {"progress", "file"}, sid \in Ids : Receive(kind, sid)
    \/ GetProgressTest \/ GetProgressLookup \/ GetProgressSerialize
    \/ DownloadFileTest \/ DownloadFileCompleted \/ DownloadFileSend

Next == (\E s \in Jobs : JobStep(s)) \/ HandlerStep

Spec == Init /\ [][Next]_vars

\* Two sessions of the web application whose background threads run at the
\* same time, each with its own uuid.  The page ceiling of both is
\* TwoJobCeiling.
TwoJobs == {"s1", "s2"}
TwoJobCeiling == 2

InitTwo ==
    /\ mode = "web"
    /\ download_progress = [k \in {} |-> FailureSnapshot]
    /\ job = [s \in TwoJobs |-> [InitJob EXCEPT !.max_pages = TwoJobCeiling]]
    /\ req = NoRequest
    /\ main_ret = None
    /\ exit_code = None
    /\ placement = NoPlacement
    /\ navigation = NoNavigation

NextTwo == \E s \in TwoJobs : ThreadStep(s)

SpecTwo == InitTwo /\ [][NextTwo]_vars

TypeOK ==
    /\ mode \in {"web", "cli"}
    /\ DOMAIN download_progress \subseteq Jobs
    /\ \A s \in Jobs : job[s].page_num \in 0..max_pages

----------------------------------------------------------------------------
(* Vocabulary of the properties *)

Done(s) == job[s].pc = "done"

Elems(q) == {q[i] : i \in 1..Len(q)}

Increasing(q) == \A i \in 1..Len(q) : \A k \in 1..Len(q) : i < k => q[i] < q[k]

Contiguous(q) == \A i \in 1..Len(q) : q[i] = i

\* Page indices for which a captured image exists.
Captured(s) == job[s].cap_tried \ job[s].cap_failed

HasSnapshot(s) == s \in DOMAIN download_progress

\* download() has stored its last snapshot.
Finished(s) == job[s].pc \in {"cleanup_ok", "cleanup_fail", "done"}

\* Every navigation of the loop succeeded and the range ran out.
CeilingReached(s) ==
    /\ Finished(s)
    /\ job[s].navs = max_pages - 1
    /\ job[s].nav_fail_at = 0

----------------------------------------------------------------------------
(* C1 .. C10 *)

\* C1: when the capture of page 1 returns None, navigate_to_next_page is
\* never called, create_pdf is never called, no page is recorded, and the
\* job ends with download() returning False and the snapshot error = True,
\* completed = False.
C1_FirstPageFailureFailsJob ==
    \A s \in Jobs :
        1 \in job[s].cap_failed =>
            /\ job[s].navs = 0
            /\ job[s].pdf_calls = 0
            /\ job[s].pages = <<>> /\ job[s].extracted = <<>>
            /\ job[s].result # "true"
            /\ Finished(s) =>
                 /\ HasSnapshot(s)
                 /\ download_progress[s].error = TRUE
                 /\ download_progress[s].completed = FALSE
            /\ Done(s) => job[s].result = "false"

C1_Witness ==
    \E s \in Jobs : 1 \in job[s].cap_failed /\ Done(s) /\ job[s].result = "false"

\* C2: in a job whose snapshot has completed = True, the pages emitted into
\* the PDF are as many as the page indices with a captured image, which is
\* the count the snapshot reports, and they are in increasing index order,
\* whatever draws failed inside create_pdf.
C2_PdfPagesEqualCaptured ==
    \A s \in Jobs :
        (HasSnapshot(s) /\ download_progress[s].completed) =>
            /\ Len(job[s].pdf) = Cardinality(Captured(s))
            /\ download_progress[s].current_page = Len(job[s].pdf)
            /\ download_progress[s].total_pages = Len(job[s].pdf)
            /\ Increasing(job[s].pdf)

\* C3 as stated: the recorded page indices are always 1..n without gaps, in
\* the loop and in the returned list.
C3_IndicesContiguous ==
    \A s \in Jobs : Contiguous(job[s].pages) /\ Contiguous(job[s].extracted)

\* C3 amended: the recorded indices are strictly increasing and start at 1;
\* capture is attempted for the indices 1..n in turn and the recorded ones
\* are those attempted minus those whose capture returned None (a failed
\* capture of an index >= 2 is skipped and leaves a gap); without a failed
\* capture they are 1..n.  The returned list is that list or the empty list.
C3_IndicesIncreasingFromOne ==
    \A s \in Jobs :
        /\ Increasing(job[s].pages)
        /\ Len(job[s].pages) > 0 => job[s].pages[1] = 1
        /\ job[s].cap_tried = 1..Cardinality(job[s].cap_tried)
        /\ Elems(job[s].pages) = Captured(s)
        /\ job[s].cap_failed = {} => Contiguous(job[s].pages)
        /\ job[s].extracted \in {<<>>, job[s].pages}

C3_Witness ==
    \E s \in Jobs :
        /\ job[s].pc = "post_extract"
        /\ job[s].extracted = <<1, 3>>
        /\ job[s].cap_failed = {2}

\* C4: once navigate_to_next_page returned False at index k, nothing is
\* navigated to or captured for an index >= k, no record has an index >= k,
\* the count k-1 is published (current_page = total_pages = k-1) and it is
\* the number of pages handed to create_pdf.
C4_NavFailureFinalCount ==
    \A s \in Jobs :
        LET k == job[s].nav_fail_at IN
        k # 0 =>
            /\ job[s].navs = k - 1
            /\ job[s].page_num = k
            /\ \A i \in job[s].cap_tried \cup Elems(job[s].pages) : i < k
            /\ job[s].pc = "post_extract" =>
                 /\ download_progress[s].current_page = k - 1
                 /\ download_progress[s].total_pages = k - 1
                 /\ Len(job[s].extracted) = k - 1
            /\ job[s].pdf_calls > 0 => Len(job[s].extracted) = k - 1

\* C5 as stated: when every navigation succeeded and the ceiling stopped the
\* loop, the job reports success with page count = ceiling.
C5_CeilingReportsSuccess ==
    \A s \in Jobs :
        CeilingReached(s) =>
            /\ download_progress[s].completed = TRUE
            /\ download_progress[s].current_page = max_pages

\* C5 amended: no index above the ceiling is navigated to or captured and at
\* most ceiling-1 navigations happen; when every navigation succeeded, the
\* job reports success exactly when create_pdf returned True, and the page
\* count it reports is the number of pages whose capture succeeded, which is
\* the ceiling when no capture failed.
C5_CeilingBoundsCapture ==
    \A s \in Jobs :
        /\ job[s].navs <= max_pages - 1
        /\ job[s].page_num <= max_pages
        /\ \A i \in job[s].cap_tried \cup Elems(job[s].pages) : i <= max_pages
        /\ CeilingReached(s) =>
             /\ job[s].cap_tried = 1..max_pages
             /\ download_progress[s].completed = (job[s].pdf_ret = "true")
             /\ download_progress[s].error = (job[s].pdf_ret # "true")
             /\ download_progress[s].completed =>
                  /\ download_progress[s].current_page
                       = max_pages - Cardinality(job[s].cap_failed)
                  /\ download_progress[s].total_pages
                       = download_progress[s].current_page
                  /\ job[s].cap_failed = {} =>
                       download_progress[s].current_page = max_pages

C5_Witness ==
    \E s \in Jobs :
        /\ Done(s) /\ CeilingReached(s)
        /\ download_progress[s].completed
        /\ download_progress[s].current_page = max_pages

\* C6: GET /progress for an id that is not a key of download_progress
\* answers 200 with the "Session not found" placeholder in the very step
\* that tests the key, leaves download_progress as it is, and no GET
\* /progress ever ends in an exception, whatever the job thread does between
\* the handler's steps.
C6_UnknownSessionPlaceholder ==
    /\ [](req.kind = "progress" =>
            /\ req.code # 500
            /\ (req.pc = "sent" /\ req.seen = "absent") =>
                 (req.code = 200 /\ req.body = NotFoundSnapshot))
    /\ [][(/\ req.kind = "progress"
           /\ req.pc = "start"
           /\ req' # req
           /\ req.sid \notin DOMAIN download_progress)
          => /\ req'.pc = "sent"
             /\ req'.code = 200
             /\ req'.body = NotFoundSnapshot
             /\ download_progress' = download_progress]_vars

C6_Witness ==
    /\ req.kind = "progress" /\ req.pc = "sent" /\ req.seen = "absent"
    /\ req.sid = UnknownId
    /\ \E s \in Jobs : HasSnapshot(s) /\ ~Finished(s)

\* C7 as stated: whenever download() has returned, the working directory and
\* every file in it are gone.
C7_CleanupRemovesDirectory ==
    \A s \in Jobs :
        job[s].result # "none" =>
            /\ job[s].cleanups >= 1
            /\ job[s].dir_exists = FALSE
            /\ job[s].files = {}

\* C7 amended: download() returns only after _cleanup has run, exactly once,
\* on the success path and on every failure path; the working directory and
\* its files are gone unless a file-system call inside _cleanup raised, an
\* error that is logged and leaves what was not yet removed in place.
C7_CleanupRunsOnce ==
    \A s \in Jobs :
        /\ job[s].cleanups <= 1
        /\ job[s].cleanups = 0 => (job[s].result = "none" /\ ~Done(s))
        /\ job[s].result # "none" =>
             /\ job[s].cleanups = 1
             /\ job[s].cleanup_err \/ (~job[s].dir_exists /\ job[s].files = {})

C7_Witness ==
    \E s \in Jobs :
        /\ job[s].result = "true"
        /\ Len(job[s].extracted) = max_pages
        /\ ~job[s].cleanup_err /\ ~job[s].dir_exists /\ job[s].files = {}

\* C8: GET /download-file answers 200 with the file only after reading
\* completed = True in the session's snapshot (which then stays completed
\* and names the saved output file); when the key is missing or the
\* snapshot read is not completed (job running or failed) the answer is 404.
C8_StreamOnlyIfCompleted ==
    (req.kind = "file" /\ req.pc = "sent") =>
        /\ req.code = 200 =>
             /\ req.seen = "completed"
             /\ HasSnapshot(req.sid)
             /\ download_progress[req.sid].completed = TRUE
             /\ req.body = [file |-> output_pdf(req.sid)]
             /\ job[req.sid].pdf_saved
        /\ req.seen \in {"absent", "incomplete"} =>
             /\ req.code = 404
             /\ "error" \in DOMAIN req.body

C8_Witness ==
    /\ req.kind = "file" /\ req.pc = "sent"
    /\ req.seen = "incomplete" /\ req.code = 404
    /\ req.sid \in Jobs
    /\ job[req.sid].pc = "mark_done"

\* C9: in CLI mode the process exit status is 0 when download() returned
\* True and 1 when it returned False.
C9_ExitCodeReflectsResult ==
    \A s \in Jobs :
        (mode = "cli" /\ Done(s) /\ exit_code # None) =>
            exit_code = (IF job[s].result = "true" THEN 0 ELSE 1)

\* C10: create_pdf is called if and only if extract_pages returned at least
\* one page; the last snapshot of the job is the success snapshot
\* (completed, current_page = total_pages = number of captured pages,
\* file_path = the output path) exactly when create_pdf returned True, and
\* has error = True, completed = False and no file_path otherwise.
C10_AssemblerIffPages ==
    \A s \in Jobs :
        /\ job[s].pdf_calls <= 1
        /\ job[s].pdf_calls = 1 => Len(job[s].extracted) >= 1
        /\ Finished(s) =>
             /\ (job[s].pdf_calls = 1) = (Cardinality(Captured(s)) >= 1)
             /\ HasSnapshot(s)
             /\ IF job[s].pdf_ret = "true"
                THEN /\ download_progress[s].completed = TRUE
                     /\ download_progress[s].error = FALSE
                     /\ download_progress[s].current_page = Cardinality(Captured(s))
                     /\ download_progress[s].total_pages = Cardinality(Captured(s))
                     /\ HasKey(download_progress[s], "file_path")
                     /\ download_progress[s].file_path = output_pdf(s)
                ELSE /\ download_progress[s].completed = FALSE
                     /\ download_progress[s].error = TRUE
                     /\ ~HasKey(download_progress[s], "file_path")
             /\ (job[s].pc = "cleanup_ok") = (job[s].pdf_ret = "true" /\ ~Done(s))
             /\ Done(s) => (job[s].result = "true") = (job[s].pdf_ret = "true")

C10_Witness ==
    \E s \in Jobs :
        /\ Done(s) /\ job[s].pdf_ret = "true"
        /\ download_progress[s].completed
        /\ download_progress[s].current_page = 2
        /\ job[s].cap_failed # {}

----------------------------------------------------------------------------
(* C11 .. C20 *)

\* extract_pages has returned to download() (or download() has ended).
Extracted(s) ==
    job[s].pc \in {"post_extract", "pdf_loop", "save", "mark_done", "mark_failed",
                   "cleanup_ok", "cleanup_fail", "done"}

\* The job thread (or main()) has ended, normally or with an exception.
Terminated(s) == job[s].pc \in {"done", "crashed"}

\* C11: every failure of a submitted job is caught inside the job: no
\* exception ends the job thread, and a failed job leaves its session's
\* snapshot with error = True and a non-empty status.
C11_FailuresCaughtAndReported ==
    \A s \in Jobs :
        /\ job[s].pc # "crashed"
        /\ (Terminated(s) /\ job[s].result # "true") =>
             /\ HasSnapshot(s)
             /\ download_progress[s].error = TRUE
             /\ download_progress[s].status # ""

\* C13 (the state a terminated job is left in): a job that has ended made at
\* most ceiling-1 navigations and its snapshot has exactly one of completed
\* and error set.
C13_TerminalSnapshot ==
    \A s \in Jobs :
        Terminated(s) =>
            /\ job[s].navs <= max_pages - 1
            /\ HasSnapshot(s)
            /\ download_progress[s].completed # download_progress[s].error

\* C14: when extract_pages has returned, quit() has been called on every
\* browser the job created.
C14_BrowsersReleased ==
    \A s \in Jobs : Extracted(s) => job[s].made \subseteq job[s].quitted

\* C16: create_pdf returns False only after c.save() raised, with the loop
\* over the pages run to its end whatever draws failed; it returns True
\* exactly when the save returned, in particular whenever a page was placed
\* and the save returned.  (download() never calls it with an empty list.)
C16_CreatePdfResult ==
    \A s \in Jobs :
        /\ job[s].pdf_ret = "false" =>
             /\ ~job[s].pdf_saved
             /\ job[s].pdf_i = Len(job[s].extracted) + 1
        /\ job[s].pdf_saved =>
             /\ job[s].pdf_ret = "true"
             /\ job[s].pdf_i = Len(job[s].extracted) + 1
        /\ job[s].pdf_ret = "true" => job[s].pdf_saved
        /\ job[s].pdf_ret # "none" => Len(job[s].extracted) > 0
        /\ job[s].pc \in {"save", "mark_done", "mark_failed"} =>
             job[s].pdf_i = Len(job[s].extracted) + 1

C16_Witness ==
    \E s \in Jobs :
        /\ job[s].pdf_ret = "true"
        /\ Len(job[s].pdf) >= 1
        /\ Len(job[s].pdf) < Len(job[s].extracted)

\* C17: a capture of an index k >= 2 that returns None does not raise into
\* extract_pages' except clause, adds no record, writes no snapshot, leaves
\* the job unfailed and the loop running; the next step of the loop, while
\* k < ceiling, navigates to k+1.
C17_FailedCaptureIsSkipped ==
    /\ [][\A s \in Jobs :
            (job[s].pc = "capture" /\ job'[s] # job[s]) =>
               /\ job'[s].pc = "loop"
               /\ job'[s].page_num = job[s].page_num
               /\ job[s].page_num \in job'[s].cap_failed =>
                    /\ job'[s].pages = job[s].pages
                    /\ job'[s].files = job[s].files
                    /\ download_progress' = download_progress
                    /\ job'[s].result = "none"]_vars
    /\ [][\A s \in Jobs :
            (/\ job[s].pc = "loop" /\ job'[s] # job[s]
             /\ job[s].page_num < max_pages) =>
               /\ job'[s].page_num = job[s].page_num + 1
               /\ job'[s].navs = job[s].navs + 1
               /\ job'[s].pc \in {"capture", "nav_failed"}]_vars
    /\ [](\A s \in Jobs :
            \A k \in job[s].cap_failed :
               k >= 2 => (k \notin Elems(job[s].pages) /\ k \notin job[s].files))

C17_Witness ==
    \E s \in Jobs :
        /\ Done(s) /\ job[s].result = "true"
        /\ 2 \in job[s].cap_failed
        /\ 3 \in Elems(job[s].extracted)
        /\ download_progress[s].completed

\* C20: capture_current_page is called at most once per page index, so each
\* page image is written at most once; no page image leaves the working
\* directory before extraction has ended and create_pdf, when called, has
\* returned; _cleanup runs once, after both.
C20_PageFilesLifecycle ==
    /\ [][\A s \in Jobs :
            job'[s].cap_tried # job[s].cap_tried =>
               /\ \E n \in job'[s].cap_tried :
                     /\ n \notin job[s].cap_tried
                     /\ job'[s].cap_tried = job[s].cap_tried \cup {n}
                     /\ job'[s].files \subseteq job[s].files \cup {n}
               /\ job[s].files \subseteq job'[s].files]_vars
    /\ [][\A s \in Jobs :
            (~(job[s].files \subseteq job'[s].files)
               \/ job'[s].cleanups # job[s].cleanups) =>
               /\ job[s].pc \in {"cleanup_ok", "cleanup_fail"}
               /\ Extracted(s)
               /\ job[s].pdf_calls = 1 => job[s].pdf_ret # "none"
               /\ job[s].cleanups = 0 /\ job'[s].cleanups = 1
               /\ Done(s)']_vars
    /\ [](\A s \in Jobs : job[s].cleanups <= 1 /\ (Done(s) => job[s].cleanups = 1))

C20_Witness ==
    \E s \in Jobs :
        /\ Done(s) /\ job[s].cleanups = 1 /\ job[s].pdf_calls = 1
        /\ Len(job[s].extracted) >= 2 /\ job[s].files = {}

\* C12: for an image of positive width and height the placement keeps the
\* aspect ratio and has width <= page_width - 50 and height <= page_height -
\* 50; the width is page_width - 50 unless the height would then exceed
\* page_height - 50, and exactly then the height is page_height - 50 and the
\* width follows from it; the image is drawn at x = 25 with its top edge 25
\* below the page top, inside the margins on all four sides.
C12_PlacementFitsPage ==
    placement.drawn =>
        LET w == placement.img[1]
            h == placement.img[2]
            fit == placement.fit
            maxw == Whole(page_width - 50)
            maxh == Whole(page_height - 50)
            too_tall == (page_width - 50) * h > (page_height - 50) * w
        IN /\ FracLe(fit.width, maxw)
           /\ FracLe(fit.height, maxh)
           /\ FracGt(fit.width, Whole(0)) /\ FracGt(fit.height, Whole(0))
           /\ FracEq(FracMul(fit.height, Whole(w)), FracMul(fit.width, Whole(h)))
           /\ fit.by_height = too_tall
           /\ ~too_tall => FracEq(fit.width, maxw)
           /\ too_tall => FracEq(fit.height, maxh)
           /\ FracEq(fit.x, Whole(25))
           /\ FracEq(FracAdd(fit.y, fit.height), Whole(page_height - 25))
           /\ FracLe(Whole(25), fit.y)
           /\ FracLe(FracAdd(fit.x, fit.width), Whole(page_width - 25))

C12_Witness ==
    /\ placement.drawn
    /\ placement.img = <<281, 372>>
    /\ placement.fit.by_height
    /\ FracEq(placement.fit.height, Whole(742))
    /\ FracGt(Whole(562), placement.fit.width)

\* Number of interactions of strategy k that the page offers.
Offered(env, k) ==
    CASE k = 1 -> 2 * Len(env.buttons)
      [] k = 2 -> 2
      [] k = 3 -> Len(env.inputs)
      [] k = 4 -> Len(env.scripts)

\* Number of interactions of strategy k in a trace.
Performed(trace, k) == Cardinality({i \in 1..Len(trace) : trace[i].strategy = k})

\* C15: the strategies are tried in the order 1, 2, 3, 4; a scripted click
\* follows the failed click on the same element and the key event follows
\* the failed key press; every interaction but the last one raised, so the
\* call stops at the first that does not raise and returns True exactly
\* then; a strategy is entered only after every interaction of the earlier
\* ones was tried and raised; False is returned only without a browser or
\* after all interactions of all four strategies raised.
C15_StrategiesInOrder ==
    navigation.called =>
        LET tr == navigation.trace
            env == navigation.env
        IN /\ ~navigation.driver => (tr = <<>> /\ navigation.ret = FALSE)
           /\ \A i \in 1..Len(tr) : \A k \in 1..Len(tr) :
                 i < k => tr[i].strategy <= tr[k].strategy
           /\ \A i \in 1..Len(tr) : i < Len(tr) => tr[i].raised
           /\ navigation.ret = (Len(tr) > 0 /\ ~tr[Len(tr)].raised)
           /\ \A i \in 1..Len(tr) :
                 /\ tr[i].kind = "js_click" =>
                      (i > 1 /\ tr[i-1].kind = "click" /\ tr[i-1].target = tr[i].target)
                 /\ tr[i].kind = "key_event" => (i > 1 /\ tr[i-1].kind = "arrow_key")
                 /\ tr[i].kind = "click" =>
                      tr[i].raised = (env.buttons[tr[i].target] # "click")
                 /\ tr[i].kind = "js_click" =>
                      tr[i].raised = (env.buttons[tr[i].target] = "raise")
                 /\ tr[i].kind = "arrow_key" => tr[i].raised = (env.keys # "ok")
                 /\ tr[i].kind = "key_event" => tr[i].raised = (env.keys = "raise")
                 /\ tr[i].kind = "page_input" =>
                      tr[i].raised = (env.inputs[tr[i].target] = "raise")
                 /\ tr[i].kind = "script" =>
                      tr[i].raised = (env.scripts[tr[i].target] = "raise")
                 /\ tr[i].kind \in
                      (CASE tr[i].strategy = 1 -> {"click", "js_click"}
                         [] tr[i].strategy = 2 -> {"arrow_key", "key_event"}
                         [] tr[i].strategy = 3 -> {"page_input"}
                         [] tr[i].strategy = 4 -> {"script"})
           /\ \A k \in 2..4 : \A e \in 1..(k-1) :
                 (Performed(tr, k) > 0 /\ navigation.driver) =>
                     Performed(tr, e) = Offered(env, e)
           /\ (navigation.driver /\ ~navigation.ret) =>
                 \A k \in 1..4 : Performed(tr, k) = Offered(env, k)
           /\ (navigation.driver /\ navigation.ret) =>
                 Performed(tr, tr[Len(tr)].strategy) <= Offered(env, tr[Len(tr)].strategy)

C15_Witness ==
    /\ navigation.called /\ navigation.driver /\ navigation.ret
    /\ Len(navigation.env.buttons) = 2
    /\ navigation.env.inputs # <<>>
    /\ navigation.trace[Len(navigation.trace)].strategy = 4
    /\ navigation.trace[Len(navigation.trace)].target = 2

\* C18: with two jobs running at the same time, a step that creates or
\* changes the tracker entry of a session id is a step of the job with that
\* id and of no other job; no entry is ever removed; and only the ids of jobs
\* that were started have an entry.
C18_WritesOnlyOwnSession ==
    /\ [][/\ DOMAIN download_progress \subseteq DOMAIN download_progress'
          /\ \A k \in DOMAIN download_progress' :
                (k \notin DOMAIN download_progress
                    \/ download_progress'[k] # download_progress[k]) =>
                   /\ k \in DOMAIN job
                   /\ job'[k] # job[k]
                   /\ \A o \in (DOMAIN job) \ {k} : job'[o] = job[o]]_vars
    /\ [](\A k \in DOMAIN download_progress :
             k \in DOMAIN job /\ job[k].pc \notin {"idle", "new"})

C18_Witness ==
    /\ HasSnapshot("s1") /\ HasSnapshot("s2")
    /\ job["s1"].pc = "pdf_loop" /\ job["s2"].pc = "loop"
    /\ download_progress["s1"].current_page # download_progress["s2"].current_page
    /\ download_progress["s1"].status # download_progress["s2"].status

\* C19: every snapshot GET /progress returns for a session that has an entry
\* is a content that some dict object stored under that session's key
\* actually had at some instant: it equals the content left by one of the
\* job's writes, whichever way the handler's membership test, lookup and
\* key-by-key serialization interleave with the job's full overwrites and
\* in-place status writes; and the handler never fails on the lookup.
C19_NoTornRead ==
    (req.kind = "progress" /\ req.pc = "sent" /\ req.seen = "present") =>
        /\ req.code = 200
        /\ req.sid \in DOMAIN download_progress
        /\ \E i \in 1..Len(download_progress[req.sid].log) :
              /\ download_progress[req.sid].log[i].val = req.body
              /\ download_progress[req.sid].log[i].oid = req.ref

\* A response whose object was written in place while it was serialized and
\* replaced before the response was sent: the body is an earlier content of
\* the object, not its last one and not the entry's present one.
C19_Witness ==
    /\ req.kind = "progress" /\ req.pc = "sent" /\ req.seen = "present"
    /\ req.code = 200
    /\ CurrentOid(download_progress[req.sid]) > req.ref
    /\ req.body # HeldObject(download_progress, req.sid, req.ref)
    /\ download_progress[req.sid].completed

----------------------------------------------------------------------------
(* C21 .. C23 *)

\* C21: setup_driver is called at most twice per job, first with
\* headless=True and a second time with headless=False, the second time only
\* after the first call returned False; when both calls returned False the
\* job never calls driver.get, never calls capture_current_page,
\* extract_pages returns the empty list, the Assembler is not called, and
\* the finished job has result False and a snapshot with error = true and
\* completed = false.
C21_AtMostTwoInitAttempts ==
    \A s \in Jobs :
        /\ job[s].setup_calls \in {<<>>, <<TRUE>>, <<TRUE, FALSE>>}
        /\ job[s].setup_failures <= Len(job[s].setup_calls)
        /\ Len(job[s].setup_calls) = 2 => job[s].setup_failures >= 1
        /\ (job[s].loaded \/ job[s].cap_tried # {}) =>
              job[s].setup_failures < Len(job[s].setup_calls)
        /\ job[s].setup_failures = 2 =>
              /\ ~job[s].loaded
              /\ job[s].cap_tried = {} /\ job[s].files = {}
              /\ job[s].navs = 0
              /\ job[s].pages = <<>> /\ job[s].extracted = <<>>
              /\ job[s].pdf_calls = 0
              /\ job[s].pc \in {"init_failed", "post_extract", "mark_failed",
                                "cleanup_fail", "done"}
              /\ HasSnapshot(s) /\ ~download_progress[s].completed
              /\ Done(s) => /\ job[s].result = "false"
                            /\ download_progress[s].error

C21_Witness ==
    \E s \in Jobs :
        /\ Done(s)
        /\ job[s].setup_calls = <<TRUE, FALSE>>
        /\ job[s].setup_failures = 2
        /\ download_progress[s].error

\* C22: once POST /download has returned the session id of a job, a
\* GET /progress for that id that the handler answers from then on never
\* returns the "Session not found" placeholder (error = true): it finds an
\* entry for the id.
C22_NoSpuriousNotFound ==
    [][\A s \in Jobs :
          (/\ job[s].pc # "idle"
           /\ req.kind = "progress" /\ req.sid = s
           /\ req.pc = "start" /\ req'.pc = "sent") =>
              req'.body # NotFoundSnapshot]_vars


\* C23: no tracker entry ever has completed = true together with error =
\* true; an entry with completed = true has the key file_path, naming the
\* job's output file, and c.save() of that job has returned (create_pdf
\* returned True, the file is on disk); and a step never changes or rewrites
\* an entry that has completed = true.
C23_CompletedIsFinal ==
    /\ [](\A s \in DOMAIN download_progress :
             /\ ~(download_progress[s].completed /\ download_progress[s].error)
             /\ download_progress[s].completed =>
                   /\ HasKey(download_progress[s], "file_path")
                   /\ download_progress[s].file_path = output_pdf(s)
                   /\ job[s].pdf_saved /\ job[s].pdf_ret = "true"
                   /\ PathExists(download_progress[s].file_path))
    /\ [][\A s \in DOMAIN download_progress :
             download_progress[s].completed =>
                 /\ s \in DOMAIN download_progress'
                 /\ download_progress'[s] = download_progress[s]]_vars

\* The job went on after storing the completed snapshot: _cleanup ran and
\* download() returned.
C23_Witness ==
    \E s \in Jobs :
        /\ Done(s) /\ job[s].cleanups = 1
        /\ HasSnapshot(s) /\ download_progress[s].completed
        /\ HasKey(download_progress[s], "file_path")

====
